---- MODULE Spec2Model ----
(***************************************************************************)
(* AgentVox hub: the admission queue (src/queue.js), the push path and its *)
(* promise chain (routes/api.js), the observer narration path              *)
(* (routes/omni.js) and the speech engine's serialisation (src/tts.js).    *)
(*                                                                         *)
(* One step of the model is one macrotask of the Node event loop: a        *)
(* request handler, a timer callback or the completion of an external      *)
(* call, together with every microtask (promise continuation) it makes     *)
(* runnable.                                                               *)
(***************************************************************************)
EXTENDS Integers, Sequences, FiniteSets, TLC

(* ---------------------------- bounds ----------------------------------- *)
\* configured queue capacity (constructor parameter, scaled down)
maxSize == 2
\* configured dedup window, in clock ticks (constructor parameter, scaled down)
dedupWindowMs == 2
\* last value of the model clock
MaxTime == 2
\* number of messages submitted to POST /message
MaxMsgs == 3
\* number of enqueue() calls when the queue is driven directly
MaxEnq == 4
\* number of POST /tts/preview requests
MaxPreviews == 1
\* number of activity entries the session watcher delivers to the hub
MaxActivity == 1
\* the same, when the observer path is taken on its own
MaxObserved == 3
\* cap of the activity buffer (scaled down)
bufferCap == 2
\* word limit of the configured verbosity (scaled down)
maxWords == 3
\* number of lines the writer of the watched file appends, and their length
MaxLines == 2
LineLen == 2
\* number of times the watched file is cut short or replaced
MaxShrinks == 1

(* ---------------------------- inputs ----------------------------------- *)
\* null for a speak() call and for currentProcess
NoJob == [kind |-> "none", id |-> 0]
NoProc == [job |-> NoJob, kind |-> "none"]
\* source and project of the pushed messages; projects the watcher reports
Sources == {"agent"}
MsgProjects == {"web"}
Projects == {"web", "api"}
SessionIds == {"sa", "sb"}
VALID_PRIORITIES == {"low", "normal", "high"}
\* Texts are sequences of words without sentence punctuation; "(emoji)"
\* stands for one emoji character standing alone.
\* the raw context of a message: plain words, an emoji alone, plain words
\* that contain the phrase the prompt reserves, and a text over the limit
PlainContext == <<"tests", "passed">>
Contexts ==
  {PlainContext, <<"(emoji)">>, <<"nothing", "to", "report">>,
   <<"build", "failed", "nothing", "to", "report">>}
\* what the external summarizer call does: answers with a summary, answers
\* with the reserved phrase, answers without a result, throws or times out
LlmOutcomes == {"result", "nothing to report", "no result", "failed"}
LlmResult == <<"tests", "pass">>

\* PRIORITY_ORDER[p] ?? 1
PRIORITY_ORDER(p) ==
  CASE p = "high" -> 0
    [] p = "normal" -> 1
    [] p = "low" -> 2
    [] OTHER -> 1

VARIABLES
  now,          \* Date.now()
  items,        \* PriorityQueue.items
  seqCounter,   \* _seqCounter of the api router
  op,           \* the queue operation performed by the last step
  ret,          \* what the last dequeue() / drain() returned, or the response
                \* of the last POST /message of PostBody
  notified,     \* the signal the last queue operation passed to _notify
  evicted       \* the resident the last enqueue() dropped to make room

VARIABLES
  msgs,           \* the messages accepted by POST /message, by seq + 1, with
                  \* the position of each one's link of the chain
  processChain,   \* state of the promise _processChain holds
  globalMute,     \* state.globalMute
  muted,          \* state.muted
  history         \* state.history (the jobs whose text was recorded)

VARIABLES
  speechQueue,    \* speak() calls chained on _speechQueue, not yet started
  ttsCur,         \* the call whose _doSpeak is running, or NoJob
  ttsPc,          \* where that _doSpeak is: "idle", "ensure", "playing"
  procs,          \* player processes: [job, kind, st]
  currentProcess, \* TtsEngine.currentProcess: NoProc or [job, kind]
  speaking,       \* TtsEngine.speaking
  ffplay,         \* whether spawn("ffplay") succeeds on this machine
  previews        \* number of POST /tts/preview requests served

VARIABLES
  watcher,        \* omni router: watcher (and both interval timers) exist
  activityBuffer, \* omni router: activityBuffer (id and project of each entry)
  cycles,         \* narration callbacks suspended in `await tts.speak`
  requests,       \* the summarizeOmni calls made so far: drain cycle, project
                  \* and the entries combined into the activity text
  narCounter,     \* number of narration requests produced so far
  actCounter      \* number of activity entries the watcher has delivered

VARIABLES
  wfile,          \* bytes of the session file "f" (0 is "\n")
  watchedFiles,   \* SessionWatcher.watchedFiles: its entries {offset, filePath}
  pollInterval,   \* SessionWatcher.pollInterval is a running timer
  wop,            \* the watcher operation performed by the last step
  shrinks,        \* number of times the file was cut short so far
  watchedAt,      \* size of "f" when watchFile() last recorded it
  delivered,      \* the lines passed to onActivity, in order of delivery
  reads,          \* the file positions readSync has read, in order
  missing         \* the session file "f" has been deleted

\* the observer's manager (routes/omni.js)
VARIABLES
  narrationInterval,  \* the handle of the narration timer is set
  rescanInterval,     \* the handle of the rescan timer is set
  omniActive,         \* state.omniActive; <<>> while the property is undefined
  live                \* how many watchers and timers exist (started, not yet
                      \* stopped or cleared)

qvars == <<now, items, seqCounter, op, ret, notified, evicted>>
svars == <<msgs, processChain, globalMute, muted, history>>
tvars == <<speechQueue, ttsCur, ttsPc, procs, currentProcess, speaking, ffplay, previews>>
ovars == <<watcher, activityBuffer, cycles, requests, narCounter, actCounter>>
mvars == <<narrationInterval, rescanInterval, omniActive, live>>
wvars == <<wfile, watchedFiles, pollInterval, wop, shrinks, watchedAt, delivered, reads,
          missing>>
vars == <<qvars, svars, tvars, ovars, wvars, mvars>>

(* ------------------------- PriorityQueue ------------------------------- *)
\* indices of xs satisfying P, and the first of them (findIndex)
FirstIdx(S) == IF S = {} THEN 0 ELSE CHOOSE i \in S : \A j \in S : i <= j

RemoveAt(xs, i) == SubSeq(xs, 1, i - 1) \o SubSeq(xs, i + 1, Len(xs))

existingIdxNarrowWindow(q, message, t) ==
  FirstIdx({i \in DOMAIN q : /\ q[i].sessionId = message.sessionId
                             /\ t - q[i].enqueuedAt < dedupWindowMs - 1})

\* findIndex of the dedup test; 0 stands for -1
existingIdx(q, message, t) ==
  FirstIdx({i \in DOMAIN q : /\ q[i].sessionId = message.sessionId
                             /\ t - q[i].enqueuedAt < dedupWindowMs})

\* a scan from the back of the array
_findNewestLow(q) ==
  LET L == {i \in DOMAIN q : q[i].priority = "low"}
  IN  IF L = {} THEN 0 ELSE CHOOSE i \in L : \A j \in L : j <= i

_findOldestLow(q) == FirstIdx({i \in DOMAIN q : q[i].priority = "low"})

\* an enqueue without the capacity branch
evictNothing(q) == q

\* a capacity branch that always shifts
evictHead(q) == IF Len(q) >= maxSize THEN Tail(q) ELSE q

\* the capacity branch of enqueue
evict(q) ==
  IF Len(q) >= maxSize
  THEN IF _findOldestLow(q) # 0 THEN RemoveAt(q, _findOldestLow(q)) ELSE Tail(q)
  ELSE q

\* an enqueue without the dedup branch
enqueueNoDedup(q, message, t) == Append(evict(q), [message EXCEPT !.enqueuedAt = t])

\* items after enqueue(message) at time t.  The field `slot` is bookkeeping
\* of the model, not a field of the JS object: the seq of the message that
\* first occupied the array element (`this.items[existingIdx] = message`
\* keeps the element, `push` makes a new one).
enqueue(q, message, t) ==
  LET m == [message EXCEPT !.enqueuedAt = t]
  IN  IF existingIdx(q, m, t) # 0
      THEN [q EXCEPT ![existingIdx(q, m, t)] =
                        [m EXCEPT !.slot = q[existingIdx(q, m, t)].slot]]
      ELSE Append(evict(q), m)

\* the resident the capacity branch removes (<<>> when it removes none)
dropped(q, message, t) ==
  IF existingIdx(q, message, t) # 0 \/ Len(q) < maxSize THEN <<>>
  ELSE IF _findOldestLow(q) # 0 THEN <<q[_findOldestLow(q)]>> ELSE <<Head(q)>>

enqueueSignal(q, message, t) ==
  IF existingIdx(q, message, t) # 0 THEN "update" ELSE "enqueue"

\* a scan that keeps the last of the best items (`p <= bestPriority`)
bestIdxLastOfTies(q) ==
  LET B == {i \in DOMAIN q :
              \A j \in DOMAIN q : PRIORITY_ORDER(q[i].priority) <= PRIORITY_ORDER(q[j].priority)}
  IN  IF B = {} THEN 0 ELSE CHOOSE i \in B : \A j \in B : j <= i

\* a scan with the comparison reversed (`p > bestPriority`)
bestIdxReversed(q) ==
  FirstIdx({i \in DOMAIN q :
              \A j \in DOMAIN q : PRIORITY_ORDER(q[i].priority) >= PRIORITY_ORDER(q[j].priority)})

\* index dequeue() picks: the first item of the lowest PRIORITY_ORDER value
bestIdx(q) ==
  FirstIdx({i \in DOMAIN q :
              \A j \in DOMAIN q : PRIORITY_ORDER(q[i].priority) <= PRIORITY_ORDER(q[j].priority)})

\* items after dequeue(), and the item it returns (<<>> stands for null)
dequeue(q) == IF Len(q) = 0 THEN q ELSE RemoveAt(q, bestIdx(q))

\* a dequeue without the guard on the empty array: splice(0, 1)[0]
dequeuedUnguarded(q) == IF Len(q) = 0 THEN <<"undefined">> ELSE <<q[bestIdx(q)]>>

dequeued(q) == IF Len(q) = 0 THEN <<>> ELSE <<q[bestIdx(q)]>>

\* a copy of the array without the sort
pendingUnsorted(q) == q

\* [...items].sort by PRIORITY_ORDER; Array.prototype.sort is stable
pending(q) ==
  SelectSeq(q, LAMBDA m : PRIORITY_ORDER(m.priority) = 0)
    \o SelectSeq(q, LAMBDA m : PRIORITY_ORDER(m.priority) = 1)
    \o SelectSeq(q, LAMBDA m : PRIORITY_ORDER(m.priority) = 2)

\* the message object a caller builds (routes/api.js builds it the same way)
Message(seq, source, project, sessionId, priority, context) ==
  [seq |-> seq, source |-> source, project |-> project,
   sessionId |-> sessionId, priority |-> priority, context |-> context,
   enqueuedAt |-> 0, slot |-> seq]

(* -------------------- summarizer (src/summarizer.js) ------------------- *)
\* cleanForSpeech: emoji characters are stripped, whitespace is collapsed
cleanForSpeech(text) == SelectSeq(text, LAMBDA w : w # "(emoji)")

\* truncate(text, maxWords) of a text without sentence punctuation
truncate(text, n) == IF Len(text) <= n THEN text ELSE SubSeq(text, 1, n)

\* result.toLowerCase().includes("nothing to report")
includesNothingToReport(text) ==
  \E k \in 1..(Len(text) - 2) :
    text[k] = "nothing" /\ text[k + 1] = "to" /\ text[k + 2] = "report"

\* _claudeCli: data.result, or the truncated context when there is no result
\* or when execFileSync / JSON.parse throws
_claudeCli(context, outcome) ==
  CASE outcome = "result" -> LlmResult
    [] outcome = "nothing to report" -> <<"nothing", "to", "report">>
    [] OTHER -> truncate(cleanForSpeech(context), maxWords)

\* the noise test of summarize(): it looks at `result`, wherever it came from
isNoise(result) == result # <<>> /\ includesNothingToReport(result)

\* summarize() of a message without a pre-made summary
summarize(context, outcome) ==
  LET result == cleanForSpeech(_claudeCli(context, outcome))
  IN  IF isNoise(result)
      THEN [null |-> TRUE, text |-> <<>>]
      ELSE [null |-> FALSE, text |-> truncate(result, maxWords)]

\* a turn that speaks whatever summarize() returned
nothingToSayIgnored(spokenText) == FALSE

\* `!spokenText`: null or the empty string
nothingToSay(spokenText) == spokenText.null \/ spokenText.text = <<>>

(* ------------------- speech scheduler (routes/api.js) ------------------ *)
\* the mute test of _processMessage
IsMuted(m) == globalMute \/ m.source \in muted \/ m.project \in muted

\* the check at the start of a turn; a turn that does not check
firstMuteCheckOmitted(m) == FALSE

firstMuteCheck(m) == IsMuted(m)

\* the re-check after summarization; a turn that does not re-check
muteRecheckOmitted(m) == FALSE

muteRecheck(m) == IsMuted(m)

\* the methods class PriorityQueue defines
PriorityQueueMethods ==
  {"enqueue", "dequeue", "pending", "drain", "size", "onEvent", "_findOldestLow", "_notify"}

\* state of the promise `.finally(() => queue.remove(message.seq))` returns
\* once the promise before it is fulfilled: calling a method the queue does
\* not define throws a TypeError, and a throwing finally callback rejects
finallySettles ==
  IF "remove" \in PriorityQueueMethods THEN "fulfilled" ELSE "rejected"

\* state.history.push(message) and the cap of the push path (200 in the
\* program, scaled down with the other bounds)
historyCap == 2

pushHistory(h, job) ==
  IF Len(h) + 1 > historyCap THEN Tail(Append(h, job)) ELSE Append(h, job)

\* the record the model keeps of an accepted message: its link of the chain
\* (`pc`), how the external summarizer call ended (`llm`), the signals and
\* calls made for it, and how it was admitted: the
\* resident it replaced in the queue (or -1) and the messages that were
\* waiting for their turn when it joined them
Accepted(message, replaces, queuedWith) ==
  [seq |-> message.seq, source |-> message.source, project |-> message.project,
   sessionId |-> message.sessionId, priority |-> message.priority,
   context |-> message.context, llm |-> "none", spokenText |-> <<>>,
   at |-> now, replaces |-> replaces, queuedWith |-> queuedWith,
   pc |-> "waiting", summarized |-> FALSE, spoke |-> FALSE,
   skipped |-> 0, started |-> 0, done |-> 0]

\* a return without the broadcast
skipUnannounced(m) == m

\* state.broadcast("message:skipped", message)
skip(m) == [m EXCEPT !.skipped = @ + 1]

\* a chain that starts every link at once, whatever the link before it does
RECURSIVE runChainUnchained(_, _)
runChainUnchained(ms, s) ==
  LET W == {i \in DOMAIN ms : ms[i].pc = "waiting"}
      w == CHOOSE i \in W : \A j \in W : i <= j
  IN  IF W = {} THEN [msgs |-> ms, chain |-> s]
      ELSE IF firstMuteCheck(ms[w])
      THEN runChainUnchained([ms EXCEPT ![w].pc = "ended", ![w].skipped = @ + 1], s)
      ELSE runChainUnchained([ms EXCEPT ![w].pc = "summarizing", ![w].summarized = TRUE], s)

\* The links `.then(() => _processMessage(m)).catch(log).finally(remove)` of
\* the waiting messages, run in order from a settled promise in state s until
\* one turn suspends: then() skips its callback on a rejected promise, catch()
\* logs, finally() settles as finallySettles.  A turn starts with the first
\* mute check (skip) and otherwise suspends in summarizer.summarize().
RECURSIVE runChain(_, _)
runChain(ms, s) ==
  LET W == {i \in DOMAIN ms : ms[i].pc = "waiting"}
      w == CHOOSE i \in W : \A j \in W : i <= j
  IN  IF W = {} THEN [msgs |-> ms, chain |-> s]
      ELSE IF s = "rejected"
      THEN runChain([ms EXCEPT ![w].pc = "dropped"], finallySettles)
      ELSE IF firstMuteCheck(ms[w])
      THEN runChain([ms EXCEPT ![w] = [skip(@) EXCEPT !.pc = "ended"]], finallySettles)
      ELSE [msgs |-> [ms EXCEPT ![w].pc = "summarizing", ![w].summarized = TRUE],
            chain |-> "pending"]

\* the turn of message i returns: the rest of its link, then the next links
endTurn(ms, i) == runChain([ms EXCEPT ![i].pc = "ended"], finallySettles)

(* ----------------------- speech engine (src/tts.js) -------------------- *)
\* speak(): chain the call on _speechQueue; on a settled queue _doSpeak
\* starts at once and suspends in ensureServer()
speak(t, job) ==
  IF t.cur = NoJob
  THEN [q |-> t.q, cur |-> job, pc |-> "ensure"]
  ELSE [q |-> Append(t.q, job), cur |-> t.cur, pc |-> t.pc]

\* the promise of the running call settles: the next chained call starts
nextSpeech ==
  IF speechQueue = <<>>
  THEN [q |-> <<>>, cur |-> NoJob, pc |-> "idle"]
  ELSE [q |-> Tail(speechQueue), cur |-> Head(speechQueue), pc |-> "ensure"]

SetTts(t) == speechQueue' = t.q /\ ttsCur' = t.cur /\ ttsPc' = t.pc

(* --------------------- narration (routes/omni.js) ---------------------- *)
\* a grouping that keeps one group per entry
RECURSIVE byProjectUngrouped(_)
byProjectUngrouped(buf) ==
  IF buf = <<>> THEN <<>>
  ELSE <<[project |-> Head(buf).project, entries |-> {Head(buf).id}]>>
         \o byProjectUngrouped(Tail(buf))

\* Object.entries(byProject): one group per project, in insertion order of
\* the keys, with the entries of the drained buffer that belong to it
RECURSIVE byProject(_)
byProject(buf) ==
  IF buf = <<>> THEN <<>>
  ELSE <<[project |-> Head(buf).project,
          entries |-> {buf[i].id : i \in {j \in DOMAIN buf : buf[j].project = Head(buf).project}}]>>
         \o byProject(SelectSeq(Tail(buf), LAMBDA x : x.project # Head(buf).project))

\* a drain that leaves the entries in the buffer
spliceNothing(buf) == buf

\* activityBuffer after `activityBuffer.splice(0)`
splice(buf) == <<>>

\* the id of a drain cycle: the id of the first entry it drained
cycleOf(todo) == CHOOSE i \in todo[1].entries : \A j \in todo[1].entries : i <= j

\* The loop over the groups up to its first `await tts.speak`: a group is
\* passed over when its project (or "omni") is muted; otherwise summarizeOmni
\* is called (a request is made) and the loop goes on when it returns nothing
\* or "nothing to report", and reaches speak() when it returns a text.  The
\* outcomes: the requests made, and the group spoken with the groups left.
RECURSIVE NextNarrations(_, _, _)
NextNarrations(cycle, todo, made) ==
  IF todo = <<>>
  THEN {[made |-> made, found |-> FALSE, project |-> "", rest |-> <<>>]}
  ELSE IF Head(todo).project \in muted \/ "omni" \in muted
  THEN NextNarrations(cycle, Tail(todo), made)
  ELSE LET r == [cycle |-> cycle, project |-> Head(todo).project,
                 entries |-> Head(todo).entries]
       IN  NextNarrations(cycle, Tail(todo), made \cup {r})
             \cup {[made |-> made \cup {r}, found |-> TRUE,
                     project |-> Head(todo).project, rest |-> Tail(todo)]}

\* the loop of drain cycle `cycle` goes on (or starts) with the groups todo,
\* the engine being t
Narrate(cycle, todo, t, others) ==
  \E o \in NextNarrations(cycle, todo, {}) :
    /\ requests' = requests \cup o.made
    /\ IF o.found
       THEN /\ cycles' = others \cup {[nar |-> narCounter, cycle |-> cycle,
                                        project |-> o.project, rest |-> o.rest]}
            /\ narCounter' = narCounter + 1
            /\ history' = Append(history, [kind |-> "nar", id |-> narCounter])
            /\ SetTts(speak(t, [kind |-> "nar", id |-> narCounter]))
       ELSE /\ cycles' = others
            /\ SetTts(t)
            /\ UNCHANGED <<narCounter, history>>

\* the promise speak() returned for job settles: the engine starts the next
\* chained call and the caller awaiting it goes on
Resolved(job) ==
  CASE job.kind = "msg" ->
         /\ LET r == endTurn([msgs EXCEPT ![job.id + 1].done = @ + 1], job.id + 1)
            IN  msgs' = r.msgs /\ processChain' = r.chain
         /\ SetTts(nextSpeech)
         /\ UNCHANGED <<history, cycles, requests, narCounter>>
    [] job.kind = "nar" ->
         /\ \E c \in cycles :
              /\ c.nar = job.id
              /\ Narrate(c.cycle, c.rest, nextSpeech, cycles \ {c})
         /\ UNCHANGED <<msgs, processChain>>
    [] OTHER ->
         /\ SetTts(nextSpeech)
         /\ UNCHANGED <<msgs, processChain, history, cycles, requests, narCounter>>

(* ------------------- session watcher (src/watcher.js) ------------------ *)
\* line n of the writer: LineLen bytes n, then "\n"
Line(n) == [k \in 1..LineLen |-> n]

\* the bytes the writer appends over time: Line(1) "\n" Line(2) "\n" ...
Stream(k) == IF k % (LineLen + 1) = 0 THEN 0 ELSE ((k - 1) \div (LineLen + 1)) + 1

\* newContent.split("\n")
RECURSIVE split(_)
split(buf) ==
  LET N == {k \in DOMAIN buf : buf[k] = 0}
      k == CHOOSE k \in N : \A j \in N : k <= j
  IN  IF N = {} THEN <<buf>>
      ELSE <<SubSeq(buf, 1, k - 1)>> \o split(SubSeq(buf, k + 1, Len(buf)))

\* .filter((l) => l.trim().length > 0)
lines(buf) == SelectSeq(split(buf), LAMBDA l : Len(l) > 0)

\* the session files: "f" is written to, "g" exists and stays empty
Files == {"f", "g"}

size(file) == IF file = "f" THEN Len(wfile) ELSE 0

\* watchedFiles.has(filePath), and the entry of a watched file
has(file) == \E e \in watchedFiles : e.filePath = file

entryOf(file) == CHOOSE e \in watchedFiles : e.filePath = file

\* the file "f" is watched; its recorded offset
watched == has("f")

offset == IF has("f") THEN entryOf("f").offset ELSE 0

NoOp == [name |-> "none", file |-> ""]

\* fs.statSync(filePath) throws: the file does not exist
statThrows(file) == file = "f" /\ missing

\* a watchFile() without the test of the map
alreadyWatchedIgnored(file) == FALSE

\* `if (this.watchedFiles.has(filePath)) return;`
alreadyWatched(file) == has(file)

\* a poll that reads whenever the size differs from the offset
grownOrChanged(sz, off) == sz # off

\* `if (stat.size <= entry.offset) continue;`
grown(sz, off) == sz > off

\* an unwatchFile() that leaves the timer alone
timerKept(files, timer) == timer

\* the timer after unwatchFile(): cleared when no file is left
timerAfterUnwatch(files, timer) == IF files = {} THEN FALSE ELSE timer

(* ----------------------------- initial state --------------------------- *)
Init ==
  /\ now = 0
  /\ items = <<>>
  /\ seqCounter = 0
  /\ op = "none"
  /\ ret = <<>>
  /\ notified = <<>>
  /\ evicted = <<>>
  /\ msgs = <<>>
  /\ processChain = "fulfilled"
  /\ globalMute = FALSE
  /\ muted = {}
  /\ history = <<>>
  /\ speechQueue = <<>>
  /\ ttsCur = NoJob
  /\ ttsPc = "idle"
  /\ procs = {}
  /\ currentProcess = NoProc
  /\ speaking = FALSE
  /\ ffplay \in BOOLEAN
  /\ previews = 0
  /\ watcher = FALSE
  /\ narrationInterval = FALSE
  /\ rescanInterval = FALSE
  /\ omniActive = <<>>
  /\ live = [watcher |-> 0, rescanInterval |-> 0, narrationInterval |-> 0]
  /\ activityBuffer = <<>>
  /\ cycles = {}
  /\ requests = {}
  /\ narCounter = 0
  /\ actCounter = 0
  /\ wfile = <<>>
  /\ watchedFiles = {}
  /\ pollInterval = FALSE
  /\ wop = NoOp
  /\ shrinks = 0
  /\ missing = FALSE
  /\ watchedAt = 0
  /\ delivered = <<>>
  /\ reads = <<>>

\* the clock advances between two macrotasks
Tick ==
  /\ now < MaxTime
  /\ now' = now + 1
  /\ op' = "none" /\ ret' = <<>> /\ notified' = <<>> /\ evicted' = <<>> /\ UNCHANGED <<wvars, mvars>>
  /\ UNCHANGED <<items, seqCounter, svars, tvars, ovars>>

(* ------------------- the queue driven directly ------------------------- *)
Enqueue ==
  \E sid \in SessionIds, pr \in VALID_PRIORITIES :
    LET message == Message(seqCounter, "agent", "web", sid, pr, PlainContext)
    IN  /\ seqCounter < MaxEnq
        /\ seqCounter' = seqCounter + 1
        /\ items' = enqueue(items, message, now)
        /\ notified' = <<enqueueSignal(items, message, now), message.seq>>
        /\ evicted' = dropped(items, message, now) /\ UNCHANGED <<wvars, mvars>>
        /\ op' = "enqueue"
        /\ ret' = <<>>
        /\ UNCHANGED <<now, svars, tvars, ovars>>

Dequeue ==
  /\ items' = dequeue(items)
  /\ ret' = dequeued(items)
  /\ notified' = IF Len(items) = 0 THEN <<>> ELSE <<"dequeue", dequeued(items)[1].seq>>
  /\ op' = "dequeue"
  /\ evicted' = <<>> /\ UNCHANGED <<wvars, mvars>>
  /\ UNCHANGED <<now, seqCounter, svars, tvars, ovars>>

Drain ==
  /\ items' = <<>>
  /\ ret' = pending(items)
  /\ notified' = <<>>
  /\ op' = "drain"
  /\ evicted' = <<>> /\ UNCHANGED <<wvars, mvars>>
  /\ UNCHANGED <<now, seqCounter, svars, tvars, ovars>>

\* queue.pending(), as GET /status and GET /queue call it
Pending ==
  /\ ret' = pending(items)
  /\ notified' = <<>>
  /\ op' = "pending"
  /\ evicted' = <<>> /\ UNCHANGED <<wvars, mvars>>
  /\ UNCHANGED <<now, items, seqCounter, svars, tvars, ovars>>

QueueNext == Tick \/ Enqueue \/ Dequeue \/ Drain \/ Pending

\* the queue on its own: the rest of the hub stays as constructed
QueueInit == Init /\ ffplay = TRUE

QueueSpec == QueueInit /\ [][QueueNext]_vars

(* ------------------------------ the hub -------------------------------- *)
tts == [q |-> speechQueue, cur |-> ttsCur, pc |-> ttsPc]

\* values of a field of the JSON body that are not short strings: the field
\* is missing, holds a number, or holds a string longer than any limit
Null == "<missing>"
NonString == "<number>"
LongString == "<201 chars>"

VALID_TYPES == {"stop", "error", "narration", "info"}

isString(val) == val \notin {Null, NonString}

length(val) == IF val = LongString THEN 201 ELSE 5

sourceTooLongIgnored(source) == FALSE

\* source.length > 100
sourceTooLong(source) == length(source) > 100

NoError == ""

\* the checks of POST /message in their order: the error of the first that
\* fails, NoError when the body passes
validate(body) ==
  IF body.source = Null \/ ~isString(body.source) THEN "source is required"
  ELSE IF sourceTooLong(body.source) THEN "source must be 100 characters or fewer"
  ELSE IF body.context = <<>> /\ body.summary = <<>> THEN "context or summary is required"
  ELSE IF \E val \in {body.project, body.sessionId} :
            val # Null /\ (~isString(val) \/ length(val) > 200)
       THEN "must be a string of 200 characters or fewer"
  ELSE IF body.priority # Null /\ body.priority \notin VALID_PRIORITIES
       THEN "priority must be one of"
  ELSE IF body.type # Null /\ body.type \notin VALID_TYPES THEN "type must be one of"
  ELSE NoError

\* the message POST /message builds from a body that passed, defaults filled
messageOf(seq, body) ==
  Message(seq, body.source,
          IF body.project = Null THEN "unknown" ELSE body.project,
          body.sessionId,
          IF body.priority = Null THEN "normal" ELSE body.priority,
          body.context)

\* POST /message past its validation, the n-th message at most: admit, chain
\* the turn, answer with response
Admit(message, n, response) ==
    LET idx == existingIdx(items, message, now)
        acc == Accepted(message, IF idx # 0 THEN items[idx].seq ELSE -1,
                        IF processChain = "pending"
                        THEN {m.seq : m \in {msgs[i] : i \in {j \in DOMAIN msgs : msgs[j].pc = "waiting"}}}
                        ELSE {})
        r == IF processChain = "pending"
             THEN [msgs |-> Append(msgs, acc), chain |-> processChain]
             ELSE runChain(Append(msgs, acc), processChain)
    IN  /\ seqCounter < n
        /\ seqCounter' = seqCounter + 1
        /\ items' = enqueue(items, message, now)
        /\ notified' = <<enqueueSignal(items, message, now), message.seq>>
        /\ evicted' = dropped(items, message, now) /\ UNCHANGED <<wvars, mvars>>
        /\ op' = "enqueue"
        /\ ret' = response
        /\ msgs' = r.msgs
        /\ processChain' = r.chain
        /\ UNCHANGED <<now, globalMute, muted, history, tvars, ovars>>

\* POST /message with a valid body (sessionId among sids, priority among
\* prs, context among ctxs, the n-th message at most)
Post(sids, prs, ctxs, n) ==
  \E source \in Sources, project \in MsgProjects, sid \in sids, pr \in prs,
     context \in ctxs :
    Admit(Message(seqCounter, source, project, sid, pr, context), n, <<>>)

\* POST /message with any body among bodies: res.status(400) and return at
\* the first check that fails, else admit and res.status(202)
PostBody(bodies, n) ==
  \E body \in bodies :
    IF validate(body) # NoError
    THEN /\ op' = "rejected"
         /\ ret' = <<[status |-> 400, error |-> validate(body), body |-> body]>>
         /\ notified' = <<>> /\ evicted' = <<>> /\ UNCHANGED <<wvars, mvars>>
         /\ UNCHANGED <<now, items, seqCounter, svars, tvars, ovars>>
    ELSE Admit(messageOf(seqCounter, body), n,
               <<[status |-> 202, error |-> NoError, body |-> body]>>)

\* bodies with every field right or wrong in one of the ways the checks tell
Bodies ==
  [source : Sources \cup {Null, NonString, LongString},
   project : MsgProjects,
   sessionId : {"sa", NonString},
   priority : {Null, "normal", "urgent"},
   type : {Null, "bogus"},
   context : {<<>>, PlainContext},
   summary : {<<>>}]

PostAny == PostBody(Bodies, MaxMsgs)

\* any valid body
PostMessage == Post(SessionIds, VALID_PRIORITIES, {PlainContext}, MaxMsgs)

\* a body that sets one session and leaves the priority to its default
PostPlain == Post({"sa"}, {"normal"}, {PlainContext}, MaxMsgs)

\* a body that sets one session, the default priority and any context
PostContext == Post({"sa"}, {"normal"}, Contexts, MaxMsgs)

\* summarizer.summarize() returns for the message whose turn is running,
\* the external call having ended as one of outcomes: nothing to say, or a
\* text (history, mute re-check, speak)
Summarized(outcomes) ==
  \E i \in DOMAIN msgs, outcome \in outcomes :
    /\ msgs[i].pc = "summarizing"
    /\ IF nothingToSay(summarize(msgs[i].context, outcome))
       THEN /\ LET r == endTurn([msgs EXCEPT ![i] = [skip(@) EXCEPT !.llm = outcome]], i)
               IN  msgs' = r.msgs /\ processChain' = r.chain
            /\ UNCHANGED <<history, tvars>>
       ELSE /\ history' = pushHistory(history, [kind |-> "msg", id |-> msgs[i].seq])
            /\ IF muteRecheck(msgs[i])
               THEN /\ LET r == endTurn([msgs EXCEPT
                                           ![i] = [skip(@) EXCEPT
                                                     !.llm = outcome,
                                                     !.spokenText = summarize(msgs[i].context, outcome).text]], i)
                       IN  msgs' = r.msgs /\ processChain' = r.chain
                    /\ UNCHANGED tvars
               ELSE /\ msgs' = [msgs EXCEPT
                                  ![i].pc = "speaking", ![i].started = @ + 1,
                                  ![i].spoke = TRUE, ![i].llm = outcome,
                                  ![i].spokenText = summarize(msgs[i].context, outcome).text]
                    /\ SetTts(speak(tts, [kind |-> "msg", id |-> msgs[i].seq]))
                    /\ UNCHANGED <<processChain, procs, currentProcess, speaking, ffplay, previews>>
    /\ op' = "none" /\ ret' = <<>> /\ notified' = <<>> /\ evicted' = <<>> /\ UNCHANGED <<wvars, mvars>>
    /\ UNCHANGED <<now, items, seqCounter, globalMute, muted, ovars>>

\* the external call answers
SummarizeReturn == Summarized({"result", "nothing to report"})

\* the external call answers or fails
SummarizeEnds == Summarized(LlmOutcomes)

MuteTargets == {"all"} \cup Sources \cup MsgProjects
HubMuteTargets == {"all", "omni"} \cup MsgProjects

\* TtsEngine.stop()
stopped(ps) ==
  {IF [job |-> p.job, kind |-> p.kind] = currentProcess /\ p.st = "playing"
   THEN [p EXCEPT !.st = "killed"] ELSE p : p \in ps}

\* state.muted and state.globalMute
muteState == [muted |-> muted, globalMute |-> globalMute]

muteAllAsName(st, target) == [st EXCEPT !.muted = @ \cup {target}]

\* what POST /mute does to the mute state
mute(st, target) ==
  IF target = "all" THEN [st EXCEPT !.globalMute = TRUE]
  ELSE [st EXCEPT !.muted = @ \cup {target}]

\* what POST /unmute does to the mute state
unmute(st, target) ==
  IF target = "all" THEN [st EXCEPT !.globalMute = FALSE]
  ELSE [st EXCEPT !.muted = @ \ {target}]

\* POST /mute with a target among targets
MuteOf(targets) ==
  \E target \in targets :
    /\ muted' = mute(muteState, target).muted
    /\ globalMute' = mute(muteState, target).globalMute
    /\ IF target = "all"
       THEN /\ procs' = stopped(procs)
            /\ currentProcess' = NoProc
            /\ speaking' = FALSE
       ELSE UNCHANGED <<procs, currentProcess, speaking>>
    /\ op' = "none" /\ ret' = <<>> /\ notified' = <<>> /\ evicted' = <<>> /\ UNCHANGED <<wvars, mvars>>
    /\ UNCHANGED <<now, items, seqCounter, msgs, processChain, history,
                   speechQueue, ttsCur, ttsPc, ffplay, previews, ovars>>

Mute == MuteOf(MuteTargets)

HubMute == MuteOf(HubMuteTargets)

\* POST /unmute with a target among targets
UnmuteOf(targets) ==
  \E target \in targets :
    /\ muted' = unmute(muteState, target).muted
    /\ globalMute' = unmute(muteState, target).globalMute
    /\ op' = "none" /\ ret' = <<>> /\ notified' = <<>> /\ evicted' = <<>> /\ UNCHANGED <<wvars, mvars>>
    /\ UNCHANGED <<now, items, seqCounter, msgs, processChain, history,
                   tvars, ovars>>

Unmute == UnmuteOf(MuteTargets)

HubUnmute == UnmuteOf(HubMuteTargets)

\* POST /queue/clear
QueueClear ==
  /\ items' = <<>>
  /\ ret' = <<>>
  /\ notified' = <<>>
  /\ op' = "drain"
  /\ evicted' = <<>> /\ UNCHANGED <<wvars, mvars>>
  /\ UNCHANGED <<now, seqCounter, svars, tvars, ovars>>

\* POST /tts/preview with an available voice
Preview ==
  /\ previews < MaxPreviews
  /\ previews' = previews + 1
  /\ SetTts(speak(tts, [kind |-> "prev", id |-> previews]))
  /\ op' = "none" /\ ret' = <<>> /\ notified' = <<>> /\ evicted' = <<>> /\ UNCHANGED <<wvars, mvars>>
  /\ UNCHANGED <<now, items, seqCounter, svars, procs, currentProcess,
                 speaking, ffplay, ovars>>

\* ensureServer() of the running _doSpeak returns or throws.  When it returns
\* the players are spawned; where ffplay is missing the player emits `error`
\* (the afplay fallback starts) and then `close`, whose handler resolves.
EnsureServerDone ==
  \E ok \in BOOLEAN :
    /\ ttsPc = "ensure"
    /\ IF ok /\ ffplay
       THEN /\ procs' = procs \cup {[job |-> ttsCur, kind |-> "ffplay", st |-> "playing"]}
            /\ currentProcess' = [job |-> ttsCur, kind |-> "ffplay"]
            /\ speaking' = TRUE
            /\ ttsPc' = "playing"
            /\ UNCHANGED <<speechQueue, ttsCur, msgs, processChain, history, cycles,
                            requests, narCounter>>
       ELSE IF ok
       THEN /\ procs' = procs \cup {[job |-> ttsCur, kind |-> "afplay", st |-> "fetch"]}
            /\ currentProcess' = NoProc
            /\ speaking' = FALSE
            /\ Resolved(ttsCur)
       ELSE /\ Resolved(ttsCur)
            /\ UNCHANGED <<procs, currentProcess, speaking>>
    /\ op' = "none" /\ ret' = <<>> /\ notified' = <<>> /\ evicted' = <<>> /\ UNCHANGED <<wvars, mvars>>
    /\ UNCHANGED <<now, items, seqCounter, globalMute, muted, ffplay,
                   previews, watcher, activityBuffer, actCounter>>

\* a player process ends (by itself or killed): the `close` handler
PlayerClose ==
  \E p \in procs :
    /\ p.st \in {"playing", "killed"}
    /\ procs' = procs \ {p}
    /\ speaking' = FALSE
    /\ currentProcess' = NoProc
    /\ IF p.kind = "ffplay"
       THEN Resolved(p.job)
       ELSE UNCHANGED <<speechQueue, ttsCur, ttsPc, msgs, processChain, history,
                        cycles, requests, narCounter>>
    /\ op' = "none" /\ ret' = <<>> /\ notified' = <<>> /\ evicted' = <<>> /\ UNCHANGED <<wvars, mvars>>
    /\ UNCHANGED <<now, items, seqCounter, globalMute, muted, ffplay,
                   previews, watcher, activityBuffer, actCounter>>

\* _speakFallback: ensureServer and the curl download end; afplay starts
FallbackFetched ==
  \E p \in procs, outcome \in {"ok", "curl failed", "no server"} :
    /\ p.st = "fetch"
    /\ CASE outcome = "ok" ->
              /\ procs' = (procs \ {p}) \cup {[p EXCEPT !.st = "playing"]}
              /\ currentProcess' = [job |-> p.job, kind |-> "afplay"]
              /\ UNCHANGED speaking
         [] outcome = "curl failed" ->
              /\ procs' = procs \ {p}
              /\ speaking' = FALSE
              /\ UNCHANGED currentProcess
         [] OTHER ->
              /\ procs' = procs \ {p}
              /\ UNCHANGED <<speaking, currentProcess>>
    /\ op' = "none" /\ ret' = <<>> /\ notified' = <<>> /\ evicted' = <<>> /\ UNCHANGED <<wvars, mvars>>
    /\ UNCHANGED <<now, items, seqCounter, svars, speechQueue, ttsCur,
                   ttsPc, ffplay, previews, ovars>>

\* a startWatcher() without its first line
alreadyStartedIgnored(w) == FALSE

\* `if (watcher) return;`
alreadyStarted(w) == w

\* GET /omni/status: { active: !!watcher }
status == watcher

\* what the hub reports: state.omniActive || false
omniActiveReported == omniActive = <<TRUE>>

\* POST /omni/on: startWatcher()
OmniOn ==
  /\ IF alreadyStarted(watcher)
     THEN UNCHANGED <<watcher, mvars>>
     ELSE /\ watcher' = TRUE
          /\ rescanInterval' = TRUE
          /\ narrationInterval' = TRUE
          /\ omniActive' = <<TRUE>>
          /\ live' = [watcher |-> live.watcher + 1,
                      rescanInterval |-> live.rescanInterval + 1,
                      narrationInterval |-> live.narrationInterval + 1]
  /\ op' = "none" /\ ret' = <<>> /\ notified' = <<>> /\ evicted' = <<>> /\ UNCHANGED wvars
  /\ UNCHANGED <<now, items, seqCounter, svars, tvars,
                 activityBuffer, cycles, requests, narCounter, actCounter>>

\* POST /omni/off: stopWatcher()
OmniOff ==
  /\ watcher' = FALSE
  /\ narrationInterval' = FALSE
  /\ rescanInterval' = FALSE
  /\ live' = [watcher |-> live.watcher - (IF watcher THEN 1 ELSE 0),
              rescanInterval |-> live.rescanInterval - (IF rescanInterval THEN 1 ELSE 0),
              narrationInterval |-> live.narrationInterval - (IF narrationInterval THEN 1 ELSE 0)]
  /\ activityBuffer' = <<>>
  /\ omniActive' = <<FALSE>>
  /\ op' = "none" /\ ret' = <<>> /\ notified' = <<>> /\ evicted' = <<>> /\ UNCHANGED wvars
  /\ UNCHANGED <<now, items, seqCounter, svars, tvars,
                 cycles, requests, narCounter, actCounter>>

\* the watcher's onActivity with a non-empty extract, the n-th at most: push,
\* and shift when the buffer is over its cap
ActivityUpTo(n) ==
  \E project \in Projects :
    /\ watcher
    /\ actCounter < n
    /\ actCounter' = actCounter + 1
    /\ activityBuffer' =
         IF Len(activityBuffer) + 1 > bufferCap
         THEN Tail(Append(activityBuffer, [id |-> actCounter, project |-> project]))
         ELSE Append(activityBuffer, [id |-> actCounter, project |-> project])
    /\ op' = "none" /\ ret' = <<>> /\ notified' = <<>> /\ evicted' = <<>> /\ UNCHANGED <<wvars, mvars>>
    /\ UNCHANGED <<now, items, seqCounter, svars, tvars,
                   watcher, cycles, requests, narCounter>>

Activity == ActivityUpTo(MaxActivity)

ObserverActivity == ActivityUpTo(MaxObserved)

\* the narration interval fires with entries buffered and no global mute
\* (it returns at once otherwise)
NarrationTick ==
  /\ watcher
  /\ activityBuffer # <<>>
  /\ ~globalMute
  /\ activityBuffer' = splice(activityBuffer)
  /\ Narrate(cycleOf(byProject(activityBuffer)), byProject(activityBuffer), tts, cycles)
  /\ op' = "none" /\ ret' = <<>> /\ notified' = <<>> /\ evicted' = <<>> /\ UNCHANGED <<wvars, mvars>>
  /\ UNCHANGED <<now, items, seqCounter, msgs, processChain, globalMute,
                 muted, procs, currentProcess, speaking, ffplay, previews, watcher,
                 actCounter>>

\* the observer path on its own: activity, drain ticks, mute controls, stop
NarrNext ==
  \/ OmniOn \/ OmniOff \/ ObserverActivity \/ NarrationTick
  \/ HubMute \/ HubUnmute
  \/ EnsureServerDone \/ PlayerClose \/ FallbackFetched

NarrSpec == Init /\ [][NarrNext]_vars

(* ------------------------ the watched file ----------------------------- *)
\* the agent appends to its session file: one write of 1..LineLen + 1 bytes
WriterAppend ==
  \E n \in 1..(LineLen + 1) :
    /\ ~missing
    /\ Len(wfile) + n <= MaxLines * (LineLen + 1)
    /\ wfile' = wfile \o [k \in 1..n |-> Stream(Len(wfile) + k)]
    /\ wop' = NoOp
    /\ UNCHANGED <<qvars, svars, tvars, ovars, mvars, missing, watchedFiles, pollInterval,
                   shrinks, watchedAt, delivered, reads>>

\* the file is cut short, or replaced by a shorter one
Shrink ==
  \E n \in 0..(Len(wfile) - 1) :
    /\ shrinks < MaxShrinks
    /\ shrinks' = shrinks + 1
    /\ wfile' = SubSeq(wfile, 1, n)
    /\ wop' = NoOp
    /\ UNCHANGED <<qvars, svars, tvars, ovars, mvars, missing, watchedFiles, pollInterval,
                   watchedAt, delivered, reads>>

\* the session file is deleted
Delete ==
  /\ ~missing
  /\ missing' = TRUE
  /\ wfile' = <<>>
  /\ wop' = NoOp
  /\ UNCHANGED <<qvars, svars, tvars, ovars, mvars, watchedFiles, pollInterval,
                 shrinks, watchedAt, delivered, reads>>

\* watchFile(filePath); a statSync that throws leaves the watcher as it was
watchFile ==
  \E file \in Files :
    /\ wop' = [name |-> "watchFile", file |-> file]
    /\ IF alreadyWatched(file) \/ statThrows(file)
       THEN UNCHANGED <<watchedFiles, pollInterval, watchedAt>>
       ELSE /\ watchedFiles' = {e \in watchedFiles : e.filePath # file}
                                 \cup {[offset |-> size(file), filePath |-> file]}
            /\ pollInterval' = TRUE
            /\ watchedAt' = IF file = "f" THEN Len(wfile) ELSE watchedAt
    /\ UNCHANGED <<qvars, svars, tvars, ovars, mvars, missing, wfile, shrinks, delivered, reads>>

\* unwatchFile(filePath)
unwatchFile ==
  \E file \in Files :
    /\ wop' = [name |-> "unwatchFile", file |-> file]
    /\ watchedFiles' = {e \in watchedFiles : e.filePath # file}
    /\ pollInterval' = timerAfterUnwatch(watchedFiles', pollInterval)
    /\ UNCHANGED <<qvars, svars, tvars, ovars, mvars, missing, wfile, shrinks, watchedAt,
                   delivered, reads>>

\* stop()
stop ==
  /\ wop' = [name |-> "stop", file |-> ""]
  /\ pollInterval' = FALSE
  /\ watchedFiles' = {}
  /\ UNCHANGED <<qvars, svars, tvars, ovars, mvars, missing, wfile, shrinks, watchedAt,
                 delivered, reads>>

\* the timer fires: _poll() reads what each watched file has grown by
_poll ==
  /\ pollInterval
  /\ wop' = [name |-> "poll", file |-> ""]
  /\ watchedFiles' =
       {IF ~statThrows(e.filePath) /\ grown(size(e.filePath), e.offset)
        THEN [e EXCEPT !.offset = size(e.filePath)] ELSE e : e \in watchedFiles}
  /\ IF watched /\ ~statThrows("f") /\ grown(Len(wfile), offset)
     THEN /\ reads' = reads \o [k \in 1..(Len(wfile) - offset) |-> offset + k]
          /\ delivered' = delivered \o lines(SubSeq(wfile, offset + 1, Len(wfile)))
     ELSE UNCHANGED <<reads, delivered>>
  /\ UNCHANGED <<qvars, svars, tvars, ovars, mvars, missing, wfile, pollInterval, shrinks, watchedAt>>

\* an append-only file and a watcher that is never stopped
WatchNext == WriterAppend \/ watchFile \/ _poll

WatchSpec == Init /\ [][WatchNext]_vars

\* a watched file that can be cut short
ShrinkNext == WriterAppend \/ Shrink \/ watchFile \/ _poll

ShrinkSpec == Init /\ [][ShrinkNext]_vars

\* a watched file that can be deleted
MissingNext == WriterAppend \/ Delete \/ watchFile \/ _poll

MissingSpec == Init /\ [][MissingNext]_vars

\* every operation of the watcher on append-only files
WatcherNext == WriterAppend \/ watchFile \/ unwatchFile \/ stop \/ _poll

WatcherSpec == Init /\ [][WatcherNext]_vars

\* the push path and the mute controls, messages of one session
PushNext ==
  \/ Tick \/ PostPlain \/ SummarizeReturn \/ Mute \/ Unmute \/ QueueClear
  \/ EnsureServerDone \/ PlayerClose \/ FallbackFetched

PushSpec == Init /\ [][PushNext]_vars

\* the push path with every kind of context and every outcome of the
\* external summarizer call
DegradeNext ==
  \/ PostContext \/ SummarizeEnds \/ Mute \/ Unmute
  \/ EnsureServerDone \/ PlayerClose \/ FallbackFetched

DegradeSpec == Init /\ [][DegradeNext]_vars

\* the push path with message bodies that pass and that fail the validation
ValidateNext ==
  \/ PostAny \/ SummarizeReturn
  \/ EnsureServerDone \/ PlayerClose \/ FallbackFetched

ValidateSpec == Init /\ [][ValidateNext]_vars

\* admission and the push path, every valid message body, nothing muted
AdmitNext ==
  \/ Tick \/ PostMessage \/ SummarizeReturn \/ QueueClear
  \/ EnsureServerDone \/ PlayerClose \/ FallbackFetched

AdmitSpec == Init /\ [][AdmitNext]_vars

\* the hub with all three callers of the speech engine (pushed messages,
\* observer narrations, voice previews) within one tick of the clock
Next ==
  \/ PostPlain \/ SummarizeReturn \/ HubMute \/ HubUnmute
  \/ Preview \/ EnsureServerDone \/ PlayerClose \/ FallbackFetched
  \/ OmniOn \/ OmniOff \/ Activity \/ NarrationTick

Spec == Init /\ [][Next]_vars

(* ----------------------- claims on the scheduler ----------------------- *)
\* _processMessage has been invoked for m / is suspended in it
Started(m) == m.pc \in {"summarizing", "speaking", "ended"}

InTurn(m) == m.pc \in {"summarizing", "speaking"}

\* C1: of two accepted messages A then B, B's processing (first mute check,
\* summarization, speech) has not started unless A's full cycle has completed.
C1_TurnsInOrder ==
  \A i, j \in DOMAIN msgs :
    (i < j /\ Started(msgs[j])) => msgs[i].pc = "ended"

\* A is being spoken while B, accepted after it, is held back
C1_Witness ==
  \E i, j \in DOMAIN msgs :
    /\ i < j
    /\ msgs[i].pc = "speaking" /\ ttsPc = "playing"
    /\ msgs[j].pc = "waiting"

\* C2: no two playbacks of the speech engine run at the same time, whoever
\* called speak().
C2_OnePlayback == Cardinality({p \in procs : p.st = "playing"}) <= 1

\* C3: at most one message, counted over pushed messages and narration
\* requests, is between the start of its summarization and the end of its
\* speech.
C3_OneInFlight ==
  Cardinality({i \in DOMAIN msgs : InTurn(msgs[i])}) + Cardinality(cycles) <= 1

\* C4: every accepted message gets its turn and reaches a terminal outcome;
\* as a final result: a message whose link of the chain has settled has
\* emitted message:skipped or speaking:done.
C4_EveryMessageHasItsTurn ==
  \A i \in DOMAIN msgs :
    msgs[i].pc \in {"ended", "dropped"} => msgs[i].skipped + msgs[i].done > 0

\* C5: when summarization returns for a message while global mute or the mute
\* of its source or project is on, the message emits message:skipped, its turn
\* ends and the speech engine is not invoked for it (no speaking:start), then
\* or later.
C5_SkippedWhenMutedInFlight ==
  [][\A i \in DOMAIN msgs :
       /\ (msgs[i].pc = "summarizing" /\ IsMuted(msgs[i]) /\ msgs'[i].pc # "summarizing")
            => /\ msgs'[i].pc = "ended"
               /\ msgs'[i].skipped = 1
               /\ msgs'[i].started = 0
               /\ ~msgs'[i].spoke
       /\ (msgs[i].pc = "ended" /\ ~msgs[i].spoke) => msgs'[i] = msgs[i]]_vars

\* a text came back (it is in the history) under a mute, and the turn ended
\* with a skip and without speech
C5_Witness ==
  \E i \in DOMAIN msgs :
    /\ msgs[i].pc = "ended" /\ msgs[i].summarized
    /\ \E k \in DOMAIN history : history[k] = [kind |-> "msg", id |-> msgs[i].seq]
    /\ msgs[i].skipped = 1 /\ ~msgs[i].spoke
    /\ IsMuted(msgs[i])

\* C6: a message whose turn begins while global mute is on or its source or
\* project is muted emits message:skipped, and neither the summarizer nor the
\* speech engine is invoked for it, then or later.
C6_SkippedAtTurnStart ==
  [][\A i \in DOMAIN msgs' :
       /\ ((i \notin DOMAIN msgs \/ msgs[i].pc = "waiting")
             /\ msgs'[i].pc \notin {"waiting", "dropped"} /\ IsMuted(msgs'[i]))
            => /\ msgs'[i].pc = "ended"
               /\ msgs'[i].skipped = 1
               /\ ~msgs'[i].summarized
               /\ ~msgs'[i].spoke /\ msgs'[i].started = 0
       /\ (i \in DOMAIN msgs /\ msgs[i].pc = "ended" /\ ~msgs[i].summarized)
            => msgs'[i] = msgs[i]]_vars

\* a turn began under a mute and ended at once with a skip
C6_Witness ==
  \E i \in DOMAIN msgs :
    /\ msgs[i].pc = "ended" /\ msgs[i].skipped = 1
    /\ ~msgs[i].summarized /\ ~msgs[i].spoke
    /\ IsMuted(msgs[i])

\* a and b were both admitted and waiting for their turn at the same time
WaitedTogether(a, b) ==
  msgs[a].seq \in msgs[b].queuedWith \/ msgs[b].seq \in msgs[a].queuedWith

\* C7: when a high-priority message and a normal- or low-priority one waited
\* together, the high-priority one is summarized and spoken first: the other
\* does not start before the high one has ended, and the high one's link
\* does not settle without its turn.
C7_HighPriorityFirst ==
  \A h, l \in DOMAIN msgs :
    (/\ msgs[h].priority = "high"
     /\ msgs[l].priority \in {"normal", "low"}
     /\ WaitedTogether(h, l))
      => /\ Started(msgs[l]) => msgs[h].pc = "ended"
         /\ msgs[h].pc # "dropped"

\* C8: when b replaced a in the queue (same sessionId within the dedup window)
\* while a was waiting for its turn, the two are one event: a's payload is
\* never summarized or spoken and b's is, so b's link does not settle without
\* its turn.
C8_OneUtteranceForTheSession ==
  \A a, b \in DOMAIN msgs :
    (msgs[b].replaces = msgs[a].seq /\ msgs[a].seq \in msgs[b].queuedWith)
      => /\ ~Started(msgs[a])
         /\ msgs[b].pc # "dropped"

(* ------------------------- claims on the queue ------------------------- *)
\* C9: dequeue() never returns a message while a message of strictly higher
\* priority (high over normal over low) is resident in the queue.
C9_NoHigherResident ==
  [][(op' = "dequeue" /\ ret' # <<>>) =>
       \A i \in DOMAIN items :
         PRIORITY_ORDER(items[i].priority) >= PRIORITY_ORDER(ret'[1].priority)]_vars

\* a high-priority message was returned ahead of an earlier, lower one
C9_Witness ==
  /\ op = "dequeue" /\ ret # <<>>
  /\ ret[1].priority = "high"
  /\ \E i \in DOMAIN items :
       items[i].priority \in {"normal", "low"} /\ items[i].seq < ret[1].seq

\* C10 as stated: of the residents of equal priority dequeue() returns the
\* one enqueued first (the earliest sequenceNumber), replacements included.
C10_Original ==
  [][(op' = "dequeue" /\ ret' # <<>>) =>
       \A i \in DOMAIN items :
         items[i].priority = ret'[1].priority => ret'[1].seq <= items[i].seq]_vars

\* C10 amended: of the residents of equal priority dequeue() returns the one
\* whose queue slot was admitted first; a same-session replacement takes over
\* the slot of the message it replaces, every other message gets a new slot
\* at the back, so among messages that replaced nothing this is enqueue order.
C10_SlotFifo ==
  [][(op' = "dequeue" /\ ret' # <<>>) =>
       \A i \in DOMAIN items :
         items[i].priority = ret'[1].priority => ret'[1].slot <= items[i].slot]_vars

\* a replacement was returned ahead of a resident of its tier enqueued before it
C10_Witness ==
  /\ op = "dequeue" /\ ret # <<>>
  /\ ret[1].slot # ret[1].seq
  /\ \E i \in DOMAIN items :
       /\ items[i].priority = ret[1].priority
       /\ items[i].seq < ret[1].seq
       /\ items[i].slot > ret[1].slot

\* the message the enqueue of this step admits, whether a resident of its
\* session is within the dedup window, and the residents the step removes
NewMessage == items'[CHOOSE k \in DOMAIN items' : items'[k].seq = seqCounter]

Duplicate ==
  \E i \in DOMAIN items :
    items[i].sessionId = NewMessage.sessionId /\ now - items[i].enqueuedAt < dedupWindowMs

Gone == {i \in DOMAIN items : \A k \in DOMAIN items' : items'[k].seq # items[i].seq}

\* C11: an enqueue whose sessionId equals that of a resident enqueued less
\* than dedupWindowMs ago replaces that resident: the size is unchanged, every
\* other resident stays where it is (also at capacity), the element now holds
\* the second message, and the listener receives `update`, not `enqueue`.
C11_ReplacesResident ==
  [][op' = "enqueue" =>
       \A i \in DOMAIN items :
         (items[i].sessionId = NewMessage.sessionId
            /\ now - items[i].enqueuedAt < dedupWindowMs)
           => /\ Len(items') = Len(items)
              /\ items'[i].seq = seqCounter
              /\ items'[i].enqueuedAt = now
              /\ \A j \in DOMAIN items : j # i => items'[j] = items[j]
              /\ notified' = <<"update", seqCounter>>]_vars

\* a resident was replaced in a full queue
C11_Witness ==
  /\ op = "enqueue" /\ notified # <<>> /\ notified[1] = "update"
  /\ Len(items) = maxSize
  /\ \E i \in DOMAIN items : items[i].seq = notified[2] /\ items[i].slot # items[i].seq

C13_EvictsOneLowFirst ==
  [][(op' = "enqueue" /\ ~Duplicate /\ Len(items) >= maxSize) =>
       /\ Cardinality(Gone) = 1
       /\ Len(items') = Len(items)
       /\ (\E i \in DOMAIN items : items[i].priority = "low")
            => \A g \in Gone : items[g].priority = "low"]_vars

\* a low-priority resident was evicted and an older resident of normal or
\* high priority survived
C13_Witness ==
  /\ op = "enqueue" /\ evicted # <<>>
  /\ evicted[1].priority = "low"
  /\ \E i \in DOMAIN items :
       items[i].priority \in {"normal", "high"} /\ items[i].slot < evicted[1].slot

\* C14 as stated: the evicted resident has the earliest enqueue time of its
\* class (the low-priority residents if there is one, all residents
\* otherwise), same-session replacements included.
C14_Original ==
  [][(op' = "enqueue" /\ ~Duplicate /\ Len(items) >= maxSize) =>
       \A g \in Gone, i \in DOMAIN items :
         ((\E l \in DOMAIN items : items[l].priority = "low") => items[i].priority = "low")
           => items[g].enqueuedAt <= items[i].enqueuedAt]_vars

\* C14 amended: the evicted resident is the one of its class whose queue slot
\* was admitted first; a same-session replacement takes over the slot of the
\* message it replaces and stamps it with its own, later, enqueue time.
C14_SlotOldest ==
  [][(op' = "enqueue" /\ ~Duplicate /\ Len(items) >= maxSize) =>
       \A g \in Gone, i \in DOMAIN items :
         ((\E l \in DOMAIN items : items[l].priority = "low") => items[i].priority = "low")
           => items[g].slot <= items[i].slot]_vars

\* a replacement was evicted and a resident of its class enqueued before it
\* survived
C14_Witness ==
  /\ op = "enqueue" /\ evicted # <<>>
  /\ evicted[1].slot # evicted[1].seq
  /\ \E i \in DOMAIN items :
       /\ items[i].enqueuedAt < evicted[1].enqueuedAt
       /\ items[i].priority = evicted[1].priority

\* C15: dequeue() on an empty queue returns null, leaves the queue empty and
\* emits no `dequeue` signal.
C15_EmptyDequeue ==
  [][(op' = "dequeue" /\ Len(items) = 0) =>
       /\ ret' = <<>>
       /\ items' = <<>>
       /\ notified' = <<>>]_vars

\* dequeue() was called on a queue that had been used and emptied
C15_Witness == op = "dequeue" /\ ret = <<>> /\ items = <<>> /\ seqCounter > 0

(* ------------------ claims on the end of a turn ------------------------ *)
\* C16: a pushed message whose turn has completed (spoken, skipped or failed)
\* is no longer resident in the admission queue, so the status report does
\* not list it.
C16_EndedNotResident ==
  \A i \in DOMAIN msgs :
    msgs[i].pc = "ended" => \A k \in DOMAIN items : items[k].seq # msgs[i].seq

\* C17: when ensureServer() throws in the turn of message N, the error is
\* absorbed: the scheduler chain is not rejected and the message waiting
\* behind N gets its turn.
C17_SpeechFailureAbsorbed ==
  [][\A i \in DOMAIN msgs :
       (/\ msgs[i].pc = "speaking"
        /\ ttsPc = "ensure" /\ ttsCur = [kind |-> "msg", id |-> msgs[i].seq]
        /\ msgs'[i].pc = "ended"
        /\ procs' = procs)
         => /\ processChain' # "rejected"
            /\ \A j \in DOMAIN msgs :
                 msgs[j].pc = "waiting" => msgs'[j].pc # "dropped"]_vars

\* C18: when the external summarizer call fails or returns no result for a
\* message with non-empty raw context, summarize() yields the truncated raw
\* text, not a skip, and the message goes on to the mute re-check and speech.
C18_FailureDegradesToTruncation ==
  [][\A i \in DOMAIN msgs :
       (/\ msgs[i].pc = "summarizing"
        /\ msgs'[i].llm \in {"failed", "no result"}
        /\ msgs[i].context # <<>>)
         => /\ msgs'[i].spokenText # <<>>
            /\ msgs'[i].spokenText = truncate(cleanForSpeech(msgs[i].context), maxWords)
            /\ history' = Append(history, [kind |-> "msg", id |-> msgs[i].seq])
            /\ IF IsMuted(msgs[i])
               THEN msgs'[i].pc = "ended" /\ msgs'[i].skipped = 1
               ELSE msgs'[i].pc = "speaking" /\ msgs'[i].started = 1]_vars

\* C19: when summarize() returns no text, the turn ends with message:skipped,
\* speak() is not called, speaking:start is not emitted and the message is
\* not added to the history, then or later.
C19_NothingToSaySkips ==
  [][\A i \in DOMAIN msgs :
       /\ (/\ msgs[i].pc = "summarizing" /\ msgs'[i].pc # "summarizing"
           /\ LET r == summarize(msgs[i].context, msgs'[i].llm)
              IN  r.null \/ r.text = <<>>)
            => /\ msgs'[i].pc = "ended"
               /\ msgs'[i].skipped = 1
               /\ msgs'[i].started = 0 /\ ~msgs'[i].spoke
               /\ history' = history
               /\ <<speechQueue, ttsCur, ttsPc>>' = <<speechQueue, ttsCur, ttsPc>>
       /\ (msgs[i].pc = "ended" /\ ~msgs[i].spoke)
            => (msgs'[i] = msgs[i]
                /\ \A k \in DOMAIN history' :
                     history'[k] = [kind |-> "msg", id |-> msgs[i].seq]
                       => k \in DOMAIN history /\ history[k] = history'[k])]_vars

\* the summarizer answered "nothing to report" under no mute, and the turn
\* ended with a skip, without speech and without a history entry
C19_Witness ==
  \E i \in DOMAIN msgs :
    /\ msgs[i].pc = "ended" /\ msgs[i].llm = "nothing to report"
    /\ msgs[i].skipped = 1 /\ ~msgs[i].spoke /\ msgs[i].started = 0
    /\ \A k \in DOMAIN history : history[k] # [kind |-> "msg", id |-> msgs[i].seq]
    /\ ~IsMuted(msgs[i])

(* ------------------------ claims on the watcher ------------------------ *)
\* C20: every line appended after watchFile() and read by a poll has been
\* delivered exactly once, as one complete line, whatever the interleaving
\* of appends and polls; and no byte of the file is read twice.
C20_EachLineOnce ==
  /\ \A n \in 1..MaxLines :
       (watched /\ watchedAt <= (n - 1) * (LineLen + 1) /\ offset >= n * (LineLen + 1))
         => Cardinality({k \in DOMAIN delivered : delivered[k] = Line(n)}) = 1
  /\ \A j, k \in DOMAIN reads : j # k => reads[j] # reads[k]

\* C21: while the file is watched its recorded offset never decreases, and a
\* poll that finds the size less than or equal to the offset reads nothing,
\* delivers nothing and leaves the offset unchanged.
C21_OffsetMonotonic ==
  [][(watched /\ watched') =>
       /\ offset' >= offset
       /\ (wop'.name = "poll" /\ Len(wfile) <= offset)
            => (offset' = offset /\ delivered' = delivered /\ reads' = reads)]_vars

\* a poll ran on the file after it had been cut below the offset
C21_Witness ==
  /\ wop.name = "poll" /\ watched
  /\ shrinks > 0 /\ Len(wfile) < offset

\* C22: watchFile() on a file that is already watched leaves its entry, and
\* so its offset, unchanged and starts no second timer; the bytes of the file
\* past the first watchFile() are read exactly once, in order.
C22_WatchIdempotent ==
  [][/\ \A file \in Files :
          (wop' = [name |-> "watchFile", file |-> file] /\ has(file))
            => (watchedFiles' = watchedFiles /\ pollInterval' = pollInterval)
     /\ \A e, d \in watchedFiles' : e.filePath = d.filePath => e = d
     /\ watched' => reads' = [k \in 1..(offset' - watchedAt') |-> watchedAt' + k]]_vars

\* watchFile() was called again after the watched file had grown, and the
\* cursor still stands where the first call put it
C22_Witness ==
  /\ wop = [name |-> "watchFile", file |-> "f"]
  /\ watched /\ offset = watchedAt
  /\ Len(wfile) > watchedAt

\* C23: unwatchFile() removes the file's entry and no later poll delivers
\* data for it; the poll timer runs exactly when some file is watched.
C23_TimerWhileWatched ==
  [][/\ pollInterval' <=> (watchedFiles' # {})
     /\ \A file \in Files :
          wop' = [name |-> "unwatchFile", file |-> file]
            => \A e \in watchedFiles' : e.filePath # file
     /\ (wop'.name = "poll" /\ ~watched)
          => (delivered' = delivered /\ reads' = reads)]_vars

\* "f" was watched and read, then unwatched; it grew, and a poll of the
\* timer that runs for "g" left the new bytes alone
C23_Witness ==
  /\ wop.name = "poll" /\ pollInterval
  /\ ~watched /\ has("g")
  /\ reads # <<>> /\ Len(wfile) > reads[Len(reads)]

(* ---------------------- claims on the narration ------------------------ *)
\* the entries waiting in the groups a suspended drain cycle has left
Waiting(cs) == UNION {UNION {c.rest[k].entries : k \in DOMAIN c.rest} : c \in cs}

Requested(rs) == UNION {r.entries : r \in rs}

Buffered(buf) == {buf[i].id : i \in DOMAIN buf}

\* C24: a drain cycle makes at most one narration request per project, also
\* counting the projects it has still to visit, and every request combines at
\* least one drained entry (an empty buffer yields no request).
C24_OneRequestPerProject ==
  /\ \A r1, r2 \in requests :
       (r1.cycle = r2.cycle /\ r1.project = r2.project) => r1 = r2
  /\ \A c \in cycles : \A k \in DOMAIN c.rest :
       /\ \A r \in requests : r.cycle = c.cycle => r.project # c.rest[k].project
       /\ \A j \in DOMAIN c.rest : c.rest[j].project = c.rest[k].project => j = k
  /\ \A r \in requests : r.entries # {}

\* two entries of one project were drained together into one request
C24_Witness ==
  \E r \in requests : Cardinality(r.entries) >= 2

C26_NotSpokenWhenMuted ==
  [][narCounter' > narCounter =>
       \A c \in cycles' :
         c.nar = narCounter => (~globalMute /\ c.project \notin muted)]_vars

(* ------------------ claims on the control surface --------------------- *)
\* the ways of failing validation the claim lists
FailsValidation(body) ==
  \/ body.source \in {Null, NonString}
  \/ body.source = LongString
  \/ body.context = <<>> /\ body.summary = <<>>
  \/ body.priority \notin VALID_PRIORITIES \cup {Null}
  \/ body.type \notin VALID_TYPES \cup {Null}

C28_MuteDoesNotBreakChain ==
  [][\A i \in DOMAIN msgs :
       /\ (msgs[i].pc = "speaking" /\ ttsPc = "playing" /\ ~globalMute /\ globalMute')
            => /\ msgs'[i] = msgs[i] /\ processChain' = processChain
               /\ currentProcess' = NoProc /\ ~speaking'
               /\ \A p \in procs' : p.st # "playing"
       /\ (msgs[i].pc = "speaking" /\ ttsPc = "playing" /\ globalMute
             /\ msgs'[i].pc = "ended")
            => /\ msgs'[i].done = 1
               /\ processChain' # "rejected"
               /\ \A j \in DOMAIN msgs :
                    msgs[j].pc = "waiting"
                      => /\ msgs'[j].pc # "dropped"
                         /\ msgs'[j].pc # "waiting"
                              => (msgs'[j].pc = "ended" /\ msgs'[j].skipped = 1)]_vars

\* C29: muting a name adds exactly that name and unmuting removes exactly
\* that name, the other names and the global flag staying as they are; with
\* "all" only the global flag changes. Stated for every target in every
\* reachable mute state, and for every step that changes the mute state.
C29_MuteFrame ==
  [][/\ \A target \in MuteTargets \ {"all"} :
          /\ mute(muteState, target) = [muted |-> muted \cup {target}, globalMute |-> globalMute]
          /\ unmute(muteState, target) = [muted |-> muted \ {target}, globalMute |-> globalMute]
     /\ mute(muteState, "all") = [muted |-> muted, globalMute |-> TRUE]
     /\ unmute(muteState, "all") = [muted |-> muted, globalMute |-> FALSE]
     /\ muted' # muted
          => /\ globalMute' = globalMute
             /\ \E target \in MuteTargets \ {"all"} :
                  muted' \in {muted \cup {target}, muted \ {target}}
     /\ globalMute' # globalMute => muted' = muted]_vars

\* one of two muted names has been unmuted while global mute was on
C29_Witness ==
  /\ globalMute /\ Cardinality(muted) = 1
  /\ \E i \in DOMAIN msgs : msgs[i].skipped = 1

\* C30: no two resident messages with the same sessionId have enqueue times
\* less than dedupWindowMs apart.
C30_NoTwoOfASessionInWindow ==
  \A i, j \in DOMAIN items :
    (i < j /\ items[i].sessionId = items[j].sessionId)
      => \/ items[j].enqueuedAt - items[i].enqueuedAt >= dedupWindowMs
         \/ items[i].enqueuedAt - items[j].enqueuedAt >= dedupWindowMs

\* two messages of one session are resident, the second enqueued when the
\* window of the first had passed
C30_Witness ==
  \E i, j \in DOMAIN items :
    /\ i < j /\ items[i].sessionId = items[j].sessionId
    /\ items[j].enqueuedAt - items[i].enqueuedAt >= dedupWindowMs

(* ------------------------ claims, third part --------------------------- *)
\* what a run of dequeue() calls returns, first to last, until the queue is
\* empty
RECURSIVE DequeueAll(_)
DequeueAll(q) ==
  IF Len(q) = 0 THEN <<>> ELSE dequeued(q) \o DequeueAll(dequeue(q))

\* C31: pending() leaves the queue as it is and returns exactly the resident
\* messages, high before normal before low, in the order in which repeated
\* dequeue() calls on the same state would return them.
C31_PendingIsDequeueOrder ==
  [][op' = "pending" =>
       /\ items' = items
       /\ Len(ret') = Len(items)
       /\ \A i \in DOMAIN items : \E k \in DOMAIN ret' : ret'[k] = items[i]
       /\ \A k, l \in DOMAIN ret' :
            k < l => PRIORITY_ORDER(ret'[k].priority) <= PRIORITY_ORDER(ret'[l].priority)
       /\ ret' = DequeueAll(items)]_vars

\* pending() returned the residents in another order than the array's
C31_Witness ==
  /\ op = "pending" /\ Len(ret) >= 2
  /\ ret # items
  /\ Len(items) = Len(ret)

\* C32: the watcher holds one entry per watched file, and a poll that finds a
\* watched file missing removes its entry from the watched set.
C32_MissingFileUnwatched ==
  [][/\ \A e1, e2 \in watchedFiles' : e1.filePath = e2.filePath => e1 = e2
     /\ (wop'.name = "poll" /\ has("f") /\ statThrows("f"))
          => \A e \in watchedFiles' : e.filePath # "f"]_vars

\* C33: at most one watcher, one rescan timer and one narration timer exist;
\* the status query reports active exactly when a watcher exists; and the
\* omniActive flag, as the hub reports it, equals that status.
C33_ObserverStatusConsistent ==
  /\ live.watcher <= 1 /\ live.rescanInterval <= 1 /\ live.narrationInterval <= 1
  /\ status <=> live.watcher = 1
  /\ omniActiveReported <=> status
  /\ rescanInterval <=> watcher
  /\ narrationInterval <=> watcher

\* the observer was enabled, disabled and enabled again, and has narrated
C33_Witness ==
  /\ status /\ omniActiveReported /\ live.narrationInterval = 1
  /\ narCounter > 0 /\ activityBuffer # <<>>

\* C34: while global mute is on, no player starts: a speech that passed its
\* last mute check before the mute and is waiting in the speech engine does
\* not begin playback after it.
C34_NoPlaybackUnderMute ==
  [][globalMute => \A p \in procs' : p.st = "playing" => p \in procs]_vars

\* C35: while the observer is disabled no narration is summarized or spoken,
\* also not for the projects a drain cycle had still to visit when the
\* observer was disabled.
C35_NoNarrationAfterOff ==
  [][narCounter' > narCounter => watcher]_vars

\* a pushed message, or a narration, that has emitted speaking:start and not
\* yet its speaking:done
Announced ==
  {[kind |-> "msg", id |-> msgs[i].seq] : i \in {j \in DOMAIN msgs : msgs[j].started > msgs[j].done}}
    \cup {[kind |-> "nar", id |-> c.nar] : c \in cycles}

\* C36: speaking:start and speaking:done are bracketed over pushed messages
\* and narrations together: no speaking:start is emitted while another
\* message's speaking:done is outstanding, so at most one message is
\* announced as being spoken.
C36_SignalsBracketed ==
  [][/\ Cardinality(Announced') <= 1
     /\ \A a \in Announced' : a \notin Announced => Announced = {}]_vars

\* C37: a pushed message emits at most one message:skipped or one
\* speaking:start, never both, and speaking:done only after speaking:start;
\* once its turn has returned it has emitted exactly one terminal outcome
\* (skipped without start, or start and done without skipped), and nothing
\* more happens to it.
C37_OneTerminalOutcome ==
  [][\A i \in DOMAIN msgs' :
       /\ msgs'[i].skipped + msgs'[i].started <= 1
       /\ msgs'[i].done <= msgs'[i].started
       /\ msgs'[i].pc = "ended"
            => \/ msgs'[i].skipped = 1 /\ msgs'[i].started = 0 /\ msgs'[i].done = 0
               \/ msgs'[i].skipped = 0 /\ msgs'[i].started = 1 /\ msgs'[i].done = 1
       /\ (i \in DOMAIN msgs /\ msgs[i].pc = "ended") => msgs'[i] = msgs[i]]_vars

\* a turn ended with start and done and no skip, although the message was
\* muted while it was being spoken
C37_Witness ==
  \E i \in DOMAIN msgs :
    /\ msgs[i].pc = "ended" /\ msgs[i].started = 1 /\ msgs[i].done = 1
    /\ msgs[i].skipped = 0 /\ IsMuted(msgs[i])

\* the accepted message i is not (or no longer) resident in the queue
NotResident(i) == \A k \in DOMAIN items : items[k].seq # msgs[i].seq

\* C38: POST /queue/clear leaves the accepted messages and the chain as they
\* are, an admission (with or without eviction or replacement) leaves the
\* messages accepted before as they are, and a message that waits for its
\* turn after it was cleared, evicted or replaced is not passed over.
C38_QueueChangesLeaveChain ==
  [][/\ op' = "drain" => (msgs' = msgs /\ processChain' = processChain)
     /\ op' = "enqueue" => \A i \in DOMAIN msgs : msgs'[i] = msgs[i]
     /\ \A i \in DOMAIN msgs :
          (msgs[i].pc = "waiting" /\ NotResident(i)) => msgs'[i].pc # "dropped"]_vars

\* C39: the shared history list never holds more entries than its cap,
\* whatever pushed messages and narrations were processed.
C39_HistoryCapped == Len(history) <= historyCap

====
